---- MODULE Spec2Model ----
(***************************************************************************)
(* Model of huffman/util.py: read_tree, decode_byte, decompress,           *)
(* write_tree and compress, over the bit stream adapter (bitio), the tree  *)
(* codec (huffman) and the tree serializer (pickle) they call.             *)
(***************************************************************************)
EXTENDS Integers, Sequences, FiniteSets, TLC

(* ---------------------------- bounds ---------------------------------- *)
MaxLen == 5          \* longest uncompressed input handed to compress
MaxPayload == 2      \* longest payload of a container not made by compress
MaxDepth == 2        \* deepest tree handed to compress / stored in a container
MaxOut == 8 * (MaxPayload + MaxLen) + 1   \* cap on the decompressed output

(* ---------------------------- values ---------------------------------- *)
\* The value of the end-of-stream leaf (Python None), outside 0..255.
None == 256
\* Byte symbols that occur in inputs and trees.
Bytes == {0, 65}
\* Bytes that occur in the payload of a container not made by compress.
PayloadBytes == {0, 165, 255}
\* The Python None object where a tree object is expected (pickle.load of a
\* pickled None; the value read_tree was meant to return on EOFError).
PyNone == [none |-> TRUE]
\* A local that has not been assigned yet.
Unset == [unset |-> TRUE]

Pow2(n) == 2 ^ n

RECURSIVE Concat(_)
Concat(ss) == IF ss = <<>> THEN <<>> ELSE Head(ss) \o Concat(Tail(ss))

Prefix(s, n) == SubSeq(s, 1, n)

IsPrefix(p, s) == Len(p) <= Len(s) /\ Prefix(s, Len(p)) = p

RECURSIVE SeqsUpTo(_, _)
SeqsUpTo(S, n) ==
    IF n = 0 THEN {<<>>}
    ELSE LET R == SeqsUpTo(S, n - 1)
         IN  R \cup {Append(s, x) : s \in {t \in R : Len(t) = n - 1}, x \in S}

(* ------------------------- huffman module ----------------------------- *)
TreeLeaf(v) == [leaf |-> TRUE, value |-> v]

TreeBranch(l, r) == [leaf |-> FALSE, left |-> l, right |-> r]

IsTree(t) == "leaf" \in DOMAIN t

RECURSIVE Leaves(_)
Leaves(t) == IF t.leaf THEN {t.value} ELSE Leaves(t.left) \cup Leaves(t.right)

RECURSIVE PathTo(_, _)
PathTo(t, v) ==
    IF t.leaf THEN <<>>
    ELSE IF v \in Leaves(t.left) THEN <<0>> \o PathTo(t.left, v)
         ELSE <<1>> \o PathTo(t.right, v)

\* huffman.make_encoding_table: leaf value -> root-to-leaf path (0 left, 1 right)
make_encoding_table(t) == [v \in Leaves(t) |-> PathTo(t, v)]

RECURSIVE TreesUpTo(_)
TreesUpTo(d) ==
    IF d = 0 THEN {TreeLeaf(v) : v \in Bytes \cup {None}}
    ELSE LET S == TreesUpTo(d - 1)
         IN  S \cup {TreeBranch(p[1], p[2]) :
                       p \in {q \in S \X S : Leaves(q[1]) \cap Leaves(q[2]) = {}}}

\* Strict binary trees with pairwise distinct leaf values.
Trees == TreesUpTo(MaxDepth)

(* --------------------------- bitio module ----------------------------- *)
\* BitWriter: out is the underlying byte stream, acc the partial byte,
\* bcount the number of bits held in acc.
BitWriter(stream) == [out |-> stream, acc |-> 0, bcount |-> 0]

flush(w) ==
    IF w.bcount > 0
    THEN [out |-> Append(w.out, w.acc), acc |-> 0, bcount |-> 0]
    ELSE w

writebit(w, bit) ==
    LET w1 == IF w.bcount = 8 THEN flush(w) ELSE w
    IN  [out |-> w1.out,
         acc |-> IF bit > 0 THEN w1.acc + Pow2(7 - w1.bcount) ELSE w1.acc,
         bcount |-> w1.bcount + 1]

RECURSIVE writebits(_, _, _)
writebits(w, v, n) ==
    IF n = 0 THEN w
    ELSE writebits(writebit(w, (v \div Pow2(n - 1)) % 2), v, n - 1)

\* for item in code: writebit(item)
RECURSIVE writecode(_, _)
writecode(w, code) ==
    IF code = <<>> THEN w ELSE writecode(writebit(w, Head(code)), Tail(code))

\* BitReader: pos bytes of the stream consumed, byte the current byte,
\* bcount the bits of it not yet handed out.
BitReader(pos) == [pos |-> pos, byte |-> 0, bcount |-> 0]

\* readbit: eof stands for the EOFError it raises.
readbit(r, stream) ==
    IF r.bcount = 0 /\ r.pos >= Len(stream)
    THEN [eof |-> TRUE, bit |-> 0, r |-> r]
    ELSE LET r1 == IF r.bcount = 0
                   THEN [pos |-> r.pos + 1, byte |-> stream[r.pos + 1], bcount |-> 8]
                   ELSE r
         IN  [eof |-> FALSE,
              bit |-> (r1.byte \div Pow2(r1.bcount - 1)) % 2,
              r   |-> [r1 EXCEPT !.bcount = r1.bcount - 1]]

RECURSIVE readbitsFrom(_, _, _, _)
readbitsFrom(r, stream, n, v) ==
    IF n = 0 THEN [eof |-> FALSE, value |-> v, r |-> r]
    ELSE LET b == readbit(r, stream)
         IN  IF b.eof THEN [eof |-> TRUE, value |-> v, r |-> b.r]
             ELSE readbitsFrom(b.r, stream, n - 1, 2 * v + b.bit)

readbits(r, stream, n) == readbitsFrom(r, stream, n, 0)

\* Number of bits a reader has handed out since the start of the stream.
BitPos(r) == 8 * r.pos - r.bcount

\* The bits of a byte sequence, most significant bit first.
RECURSIVE BitsOf(_)
BitsOf(bs) ==
    IF bs = <<>> THEN <<>>
    ELSE [i \in 1..8 |-> (Head(bs) \div Pow2(8 - i)) % 2] \o BitsOf(Tail(bs))

(* -------------------------- pickle module ----------------------------- *)
\* A self-delimiting description: 0 = sentinel leaf, 1 v = byte leaf,
\* 2 left right = branch, 3 = the None object.
RECURSIVE pickle_dump(_)
pickle_dump(t) ==
    IF ~IsTree(t) THEN <<3>>
    ELSE IF t.leaf THEN (IF t.value = None THEN <<0>> ELSE <<1, t.value>>)
    ELSE <<2>> \o pickle_dump(t.left) \o pickle_dump(t.right)

\* pickle.load from byte offset pos: the object and the offset after it, or
\* the error raised.
RECURSIVE pickle_load(_, _)
pickle_load(stream, pos) ==
    IF pos >= Len(stream) THEN [err |-> "EOFError", pos |-> pos]
    ELSE LET tag == stream[pos + 1] IN
      CASE tag = 0 -> [err |-> "", obj |-> TreeLeaf(None), pos |-> pos + 1]
        [] tag = 1 -> IF pos + 1 >= Len(stream)
                      THEN [err |-> "EOFError", pos |-> pos + 1]
                      ELSE [err |-> "", obj |-> TreeLeaf(stream[pos + 2]), pos |-> pos + 2]
        [] tag = 2 -> LET l == pickle_load(stream, pos + 1) IN
                      IF l.err # "" THEN l
                      ELSE LET r == pickle_load(stream, l.pos) IN
                           IF r.err # "" THEN r
                           ELSE [err |-> "", obj |-> TreeBranch(l.obj, r.obj), pos |-> r.pos]
        [] tag = 3 -> [err |-> "", obj |-> PyNone, pos |-> pos + 1]
        [] OTHER   -> [err |-> "UnpicklingError", pos |-> pos]

(* ----------------------------- util.py -------------------------------- *)
\* read_tree: seek(0), pickle.load; on EOFError the handler evaluates the
\* unbound name NONE, which raises NameError; other errors are not caught.
read_tree(tree_stream) ==
    LET p == pickle_load(tree_stream, 0)
    IN  IF p.err = "" THEN [exc |-> "", tree |-> p.obj, pos |-> p.pos]
        ELSE IF p.err = "EOFError" THEN [exc |-> "NameError", tree |-> Unset, pos |-> p.pos]
        ELSE [exc |-> p.err, tree |-> Unset, pos |-> p.pos]

\* decode_byte with the children exchanged: right on 0, left on 1.
RECURSIVE decode_byte_swapped(_, _, _)
decode_byte_swapped(node, bitreader, stream) ==
    IF node.leaf THEN [value |-> node.value, r |-> bitreader, eof |-> FALSE]
    ELSE LET b == readbit(bitreader, stream)
         IN  IF b.eof THEN [value |-> None, r |-> b.r, eof |-> TRUE]
             ELSE decode_byte_swapped(IF b.bit = 1 THEN node.left ELSE node.right, b.r, stream)

\* decode_byte that reads a bit before it tests for a leaf.
RECURSIVE decode_byte_readfirst(_, _, _)
decode_byte_readfirst(node, bitreader, stream) ==
    LET b == readbit(bitreader, stream)
    IN  IF b.eof THEN [value |-> None, r |-> b.r, eof |-> TRUE]
        ELSE IF node.leaf THEN [value |-> node.value, r |-> b.r, eof |-> FALSE]
        ELSE LET next == IF b.bit = 1 THEN node.right ELSE node.left
             IN  IF next.leaf THEN [value |-> next.value, r |-> b.r, eof |-> FALSE]
                 ELSE decode_byte_readfirst(next, b.r, stream)

\* decode_byte: walk from node to a leaf, one readbit per branch; EOFError
\* inside the walk makes it return None (eof records that this happened).
RECURSIVE decode_byte(_, _, _)
decode_byte(node, bitreader, stream) ==
    IF node.leaf THEN [value |-> node.value, r |-> bitreader, eof |-> FALSE]
    ELSE LET b == readbit(bitreader, stream)
         IN  IF b.eof THEN [value |-> None, r |-> b.r, eof |-> TRUE]
             ELSE decode_byte(IF b.bit = 1 THEN node.right ELSE node.left, b.r, stream)

\* write_tree: pickle.dump(tree, tree_stream)
write_tree(t, w) == [w EXCEPT !.out = w.out \o pickle_dump(t)]

VARIABLES
    cpc,           \* compress: "idle", "start", "loop", "flush", "done", "failed"
    tree,          \* compress: the tree argument
    uncompressed,  \* compress: the bytes of the input stream
    crd,           \* compress: my_bit_reader over uncompressed
    cw,            \* compress: my_bit_writer and the stream 'compressed' (cw.out)
    table,         \* compress: the encoding table
    treeEnd,       \* compress: length of 'compressed' once the tree is written
    sentinels,     \* compress: times the code of None was written
    flushes,       \* compress: calls of my_bit_writer.flush()
    cexc,          \* compress: the exception that left compress, "" if none
    dpc,           \* decompress: "idle", "read_tree", "first", "loop", "done", "crashed"
    dstream,       \* decompress: the bytes of the stream 'compressed'
    truncated,     \* the last byte of compress's output was removed
    tree_root,     \* decompress: the tree read
    drd,           \* decompress: my_bit_reader over dstream
    dw,            \* decompress: my_bit_writer and the stream 'uncompressed' (dw.out)
    value,         \* decompress: the last value decode_byte returned
    decoded,       \* decompress: every value decode_byte returned, in order
    callStart,     \* decompress: bits handed out before the last decode_byte call
    lastEof,       \* decompress: the last decode_byte call ended on EOFError
    dflushes,      \* decompress: calls of my_bit_writer.flush()
    dexc           \* decompress: the exception that left decompress, "" if none

cvars == <<cpc, tree, uncompressed, crd, cw, table, treeEnd, sentinels, flushes, cexc>>
dvars == <<dpc, dstream, truncated, tree_root, drd, dw, value, decoded, callStart,
           lastEof, dflushes, dexc>>
vars == <<cvars, dvars>>

Inputs == SeqsUpTo(Bytes, MaxLen)

\* Containers that compress did not write: any tree (or the None object)
\* followed by any payload, and descriptions that end early.
ForeignContainers ==
    {pickle_dump(t) \o p : t \in Trees \cup {PyNone}, p \in SeqsUpTo(PayloadBytes, MaxPayload)}
    \cup UNION {{Prefix(pickle_dump(t), n) : n \in 0..(Len(pickle_dump(t)) - 1)} : t \in Trees}

InitCompress ==
    /\ cpc = "start" /\ tree \in Trees /\ uncompressed \in Inputs
    /\ dpc = "idle" /\ dstream = <<>>

InitForeign ==
    /\ cpc = "idle" /\ tree = Unset /\ uncompressed = <<>>
    /\ dpc = "read_tree" /\ dstream \in ForeignContainers

Init ==
    /\ (InitCompress \/ InitForeign)
    /\ crd = BitReader(0) /\ cw = BitWriter(<<>>) /\ table = <<>>
    /\ treeEnd = 0 /\ sentinels = 0 /\ flushes = 0 /\ cexc = ""
    /\ truncated = FALSE /\ tree_root = Unset
    /\ drd = BitReader(0) /\ dw = BitWriter(<<>>)
    /\ value = None /\ decoded = <<>> /\ callStart = 0 /\ lastEof = FALSE
    /\ dflushes = 0 /\ dexc = ""

(* compress, lines 127-131 *)
C_Start ==
    /\ cpc = "start"
    /\ cw' = write_tree(tree, BitWriter(<<>>))
    /\ treeEnd' = Len(cw'.out)
    /\ crd' = BitReader(0)
    /\ table' = make_encoding_table(tree)
    /\ cpc' = "loop"
    /\ UNCHANGED <<tree, uncompressed, sentinels, flushes, cexc, dvars>>

\* C_Encode that writes the bits of a code last bit first.
C_Encode_Reversed ==
    /\ cpc = "loop"
    /\ LET b == readbits(crd, uncompressed, 8) IN
         /\ ~b.eof
         /\ b.value \in DOMAIN table
         /\ crd' = b.r
         /\ cw' = writecode(cw, [i \in 1..Len(table[b.value]) |->
                                   table[b.value][Len(table[b.value]) + 1 - i]])
    /\ UNCHANGED <<cpc, tree, uncompressed, table, treeEnd, sentinels, flushes, cexc, dvars>>

(* compress, lines 134-138: a byte was read and has a table entry *)
C_Encode ==
    /\ cpc = "loop"
    /\ LET b == readbits(crd, uncompressed, 8) IN
         /\ ~b.eof
         /\ b.value \in DOMAIN table
         /\ crd' = b.r
         /\ cw' = writecode(cw, table[b.value])
    /\ UNCHANGED <<cpc, tree, uncompressed, table, treeEnd, sentinels, flushes, cexc, dvars>>

\* C_KeyError that skips the byte (table.get(byte, ())) and goes on.
C_KeyError_Skip ==
    /\ cpc = "loop"
    /\ LET b == readbits(crd, uncompressed, 8) IN
         /\ ~b.eof
         /\ b.value \notin DOMAIN table
         /\ crd' = b.r
    /\ UNCHANGED <<cpc, cexc, tree, uncompressed, cw, table, treeEnd, sentinels, flushes, dvars>>

(* compress, line 137: table[byte] raises KeyError, which no handler catches *)
C_KeyError ==
    /\ cpc = "loop"
    /\ LET b == readbits(crd, uncompressed, 8) IN
         /\ ~b.eof
         /\ b.value \notin DOMAIN table
         /\ crd' = b.r
    /\ cpc' = "failed"
    /\ cexc' = "KeyError"
    /\ UNCHANGED <<tree, uncompressed, cw, table, treeEnd, sentinels, flushes, dvars>>

\* C_EOF that ends the loop without writing the sentinel's code.
C_EOF_NoSentinel ==
    /\ cpc = "loop"
    /\ LET b == readbits(crd, uncompressed, 8) IN
         /\ b.eof
         /\ crd' = b.r
    /\ IF None \in DOMAIN table
       THEN /\ cpc' = "flush"
            /\ UNCHANGED <<cw, sentinels, cexc>>
       ELSE /\ cpc' = "failed"
            /\ cexc' = "KeyError"
            /\ UNCHANGED <<cw, sentinels>>
    /\ UNCHANGED <<tree, uncompressed, table, treeEnd, flushes, dvars>>

(* compress, lines 140-143: readbits raised EOFError *)
C_EOF ==
    /\ cpc = "loop"
    /\ LET b == readbits(crd, uncompressed, 8) IN
         /\ b.eof
         /\ crd' = b.r
    /\ IF None \in DOMAIN table
       THEN /\ cw' = writecode(cw, table[None])
            /\ sentinels' = sentinels + 1
            /\ cpc' = "flush"
            /\ cexc' = cexc
       ELSE /\ cpc' = "failed"
            /\ cexc' = "KeyError"
            /\ UNCHANGED <<cw, sentinels>>
    /\ UNCHANGED <<tree, uncompressed, table, treeEnd, flushes, dvars>>

\* C_Flush that returns without flushing the bit writer.
C_Flush_Skipped ==
    /\ cpc = "flush"
    /\ cpc' = "done"
    /\ UNCHANGED <<cw, flushes, tree, uncompressed, crd, table, treeEnd, sentinels, cexc, dvars>>

(* compress, lines 145-146 *)
C_Flush ==
    /\ cpc = "flush"
    /\ cw' = flush(cw)
    /\ flushes' = flushes + 1
    /\ cpc' = "done"
    /\ UNCHANGED <<tree, uncompressed, crd, table, treeEnd, sentinels, cexc, dvars>>

(* the caller hands compress's output to decompress *)
Reopen ==
    /\ cpc = "done" /\ dpc = "idle"
    /\ dstream' = cw.out
    /\ dpc' = "read_tree"
    /\ UNCHANGED <<cvars, truncated, tree_root, drd, dw, value, decoded, callStart,
                   lastEof, dflushes, dexc>>

(* the same, with the last byte of the container removed *)
Truncate ==
    /\ cpc = "done" /\ dpc = "idle"
    /\ Len(cw.out) > 0
    /\ dstream' = Prefix(cw.out, Len(cw.out) - 1)
    /\ truncated' = TRUE
    /\ dpc' = "read_tree"
    /\ UNCHANGED <<cvars, tree_root, drd, dw, value, decoded, callStart,
                   lastEof, dflushes, dexc>>

(* decompress, line 77: read_tree raises *)
D_ReadTreeFail ==
    /\ dpc = "read_tree"
    /\ read_tree(dstream).exc # ""
    /\ dexc' = read_tree(dstream).exc
    /\ dpc' = "crashed"
    /\ UNCHANGED <<cvars, dstream, truncated, tree_root, drd, dw, value, decoded,
                   callStart, lastEof, dflushes>>

(* decompress, lines 77-80: read_tree returned None *)
D_NoTree ==
    /\ dpc = "read_tree"
    /\ read_tree(dstream).exc = ""
    /\ read_tree(dstream).tree = PyNone
    /\ tree_root' = PyNone
    /\ dpc' = "done"
    /\ UNCHANGED <<cvars, dstream, truncated, drd, dw, value, decoded,
                   callStart, lastEof, dflushes, dexc>>

(* decompress, lines 77-84: a tree was read; reader and writer are made *)
D_ReadTree ==
    /\ dpc = "read_tree"
    /\ read_tree(dstream).exc = ""
    /\ read_tree(dstream).tree # PyNone
    /\ tree_root' = read_tree(dstream).tree
    /\ drd' = BitReader(read_tree(dstream).pos)
    /\ dw' = BitWriter(<<>>)
    /\ dpc' = "first"
    /\ UNCHANGED <<cvars, dstream, truncated, value, decoded, callStart, lastEof,
                   dflushes, dexc>>

\* value = decode_byte(tree_root, my_bit_reader)
Decode ==
    LET d == decode_byte(tree_root, drd, dstream) IN
    /\ value' = d.value
    /\ drd' = d.r
    /\ lastEof' = d.eof
    /\ callStart' = BitPos(drd)
    /\ decoded' = Append(decoded, d.value)

(* decompress, line 87 *)
D_First ==
    /\ dpc = "first"
    /\ Decode
    /\ dpc' = "loop"
    /\ UNCHANGED <<cvars, dstream, truncated, tree_root, dw, dflushes, dexc>>

(* decompress, lines 91-94: one iteration of the loop *)
D_Write ==
    /\ dpc = "loop"
    /\ value # None
    /\ Len(dw.out) < MaxOut
    /\ dw' = writebits(dw, value, 8)
    /\ Decode
    /\ UNCHANGED <<cvars, dpc, dstream, truncated, tree_root, dflushes, dexc>>

\* D_Exit that returns without flushing the bit writer.
D_Exit_NoFlush ==
    /\ dpc = "loop"
    /\ value = None
    /\ dpc' = "done"
    /\ UNCHANGED <<cvars, dw, dflushes, dstream, truncated, tree_root, drd, value, decoded,
                   callStart, lastEof, dexc>>

\* D_Exit of a loop that writes before it tests (the sentinel is written too).
D_Exit_WritesSentinel ==
    /\ dpc = "loop"
    /\ value = None
    /\ dw' = flush(writebits(dw, value, 8))
    /\ dflushes' = dflushes + 1
    /\ dpc' = "done"
    /\ UNCHANGED <<cvars, dstream, truncated, tree_root, drd, value, decoded,
                   callStart, lastEof, dexc>>

(* decompress, lines 91 and 97-98: the loop ends *)
D_Exit ==
    /\ dpc = "loop"
    /\ value = None
    /\ dw' = flush(dw)
    /\ dflushes' = dflushes + 1
    /\ dpc' = "done"
    /\ UNCHANGED <<cvars, dstream, truncated, tree_root, drd, value, decoded,
                   callStart, lastEof, dexc>>

Next ==
    \/ C_Start \/ C_Encode \/ C_KeyError \/ C_EOF \/ C_Flush
    \/ Reopen \/ Truncate
    \/ D_ReadTreeFail \/ D_NoTree \/ D_ReadTree \/ D_First \/ D_Write \/ D_Exit

Spec == Init /\ [][Next]_vars

(* ------------------------ notions the claims use ---------------------- *)
Range(s) == {s[i] : i \in 1..Len(s)}

\* code(s1) code(s2) ... code(sn) for symbols that are leaves of t
Codes(t, s) == Concat([i \in 1..Len(s) |-> PathTo(t, s[i])])

\* The node reached from t by going left on 0 and right on 1 along path;
\* a leaf keeps the walk where it is.
RECURSIVE Follow(_, _)
Follow(t, path) ==
    IF path = <<>> \/ t.leaf THEN t
    ELSE Follow(IF Head(path) = 1 THEN t.right ELSE t.left, Tail(path))

\* The tree covers the input and has a sentinel leaf.
Covered == IsTree(tree) /\ (Range(uncompressed) \cup {None}) \subseteq Leaves(tree)

HasUnencodable == IsTree(tree) /\ \E i \in 1..Len(uncompressed) : uncompressed[i] \notin Leaves(tree)

FirstBad == CHOOSE i \in 1..Len(uncompressed) :
               /\ uncompressed[i] \notin Leaves(tree)
               /\ \A j \in 1..(i - 1) : uncompressed[j] \in Leaves(tree)

\* The bytes of 'compressed' after the tree description.
Payload == SubSeq(cw.out, treeEnd + 1, Len(cw.out))

\* Every bit handed to compress's bit writer so far (emitted or pending).
WrittenBits == Prefix(BitsOf(Append(Payload, cw.acc)), 8 * Len(Payload) + cw.bcount)

\* The bytes handed to decompress's bit writer so far (emitted or pending).
OutBytes == IF dw.bcount = 8 THEN Append(dw.out, dw.acc) ELSE dw.out

\* The bits decode_byte consumed in its last call.
LastBits == SubSeq(BitsOf(dstream), callStart + 1, BitPos(drd))

\* Byte offset at which the payload of dstream starts.
PayloadStart == read_tree(dstream).pos

RECURSIVE SumCodeLen(_, _)
SumCodeLen(t, s) == IF s = <<>> THEN 0 ELSE Len(PathTo(t, Head(s))) + SumCodeLen(t, Tail(s))

\* The last byte of a container written by compress was removed and it held
\* bits of the last symbol's code or of the sentinel's code.
NeededBitsCut ==
    /\ truncated /\ Covered
    /\ Len(dstream) >= treeEnd
    /\ Len(Codes(tree, uncompressed)) + Len(PathTo(tree, None)) > 8 * (Len(dstream) - treeEnd)

\* How many leading symbols of the input have their whole code in dstream.
CompleteSymbols ==
    LET fits(k) == Len(Codes(tree, Prefix(uncompressed, k))) <= 8 * (Len(dstream) - treeEnd)
    IN  CHOOSE k \in 0..Len(uncompressed) :
            fits(k) /\ (k = Len(uncompressed) \/ ~fits(k + 1))

(* ------------------------------- claims ------------------------------- *)

\* C1: round trip. When compress completed on (tree, uncompressed) and its
\* container is handed unchanged to decompress, decompress never crashes, at
\* every moment has written a prefix of the input, and when it returns the
\* output is exactly the input. A covering tree never makes compress fail.
C1_RoundTrip ==
    /\ (Covered => cpc # "failed")
    /\ (cpc = "done" /\ ~truncated /\ dpc # "idle") =>
          /\ dpc # "crashed"
          /\ IsPrefix(OutBytes, uncompressed)
          /\ (dpc = "done" => dw.out = uncompressed /\ dexc = "")

C1_Witness ==
    /\ cpc = "done" /\ ~truncated /\ dpc = "done"
    /\ ~tree.leaf
    /\ Len(uncompressed) >= 3 /\ Range(uncompressed) = Bytes
    /\ dw.out = uncompressed

C3_NoTreeOutcome ==
    (pickle_load(dstream, 0).err = "EOFError" /\ dpc \notin {"idle", "read_tree"}) =>
        \/ dpc = "done" /\ dw.out = <<>> /\ decoded = <<>> /\ dexc = ""
        \/ dpc = "crashed" /\ dexc = "MalformedTree"

\* C4: byte alignment. When compress returns nothing is pending in the bit
\* writer, the payload is the fewest whole bytes that hold the codes, and
\* every payload bit after the sentinel's code is 0.
C4_ByteAlignment ==
    cpc = "done" =>
        LET n == Len(Codes(tree, uncompressed)) + Len(PathTo(tree, None))
            bits == BitsOf(Payload)
        IN  /\ cw.bcount = 0
            /\ Len(bits) >= n /\ Len(bits) - n < 8
            /\ \A i \in (n + 1)..Len(bits) : bits[i] = 0

C4_Witness ==
    /\ cpc = "done"
    /\ Len(Payload) = 2
    /\ (Len(Codes(tree, uncompressed)) + Len(PathTo(tree, None))) % 8 = 3
    /\ 65 \in Range(uncompressed)

\* C5: unencodable symbol. If the input holds a byte with no table entry,
\* compress never reaches the sentinel or the flush and never returns; it
\* ends in KeyError at the first such byte, having written the codes of the
\* bytes before it and nothing else, and reads no byte after it.
C5_Unencodable ==
    HasUnencodable =>
        /\ cpc \notin {"flush", "done"}
        /\ sentinels = 0 /\ flushes = 0
        /\ crd.pos <= FirstBad
        /\ (cpc = "failed" =>
              /\ cexc = "KeyError"
              /\ crd.pos = FirstBad
              /\ WrittenBits = Codes(tree, Prefix(uncompressed, FirstBad - 1)))

C5_Witness ==
    /\ HasUnencodable /\ cpc = "failed"
    /\ FirstBad >= 3 /\ FirstBad < Len(uncompressed)
    /\ None \in Leaves(tree)
    /\ Len(WrittenBits) >= 2

\* C6: sentinel handling. While the loop runs, the bytes handed to the
\* writer are the values decode_byte returned, in order, except the last one
\* (not yet written); none of them is None. When decompress has returned
\* after the loop, the last value is the first None, it was not written, and
\* the bits read are exactly the codes of the values decoded: if the loop
\* ended on the sentinel leaf, no bit after its code was read.
C6_SentinelHandling ==
    (dpc \in {"loop", "done"} /\ IsTree(tree_root)) =>
        /\ decoded # <<>>
        /\ OutBytes = Prefix(decoded, Len(decoded) - 1)
        /\ \A i \in 1..Len(OutBytes) : OutBytes[i] \in 0..255
        /\ (dpc = "done" =>
              /\ decoded[Len(decoded)] = None
              /\ dw.out = Prefix(decoded, Len(decoded) - 1)
              /\ dflushes = 1
              /\ (~lastEof =>
                    /\ None \in Leaves(tree_root)
                    /\ BitPos(drd) = 8 * PayloadStart + SumCodeLen(tree_root, decoded)))

C6_Witness ==
    /\ dpc = "done" /\ IsTree(tree_root) /\ ~lastEof
    /\ Len(dw.out) >= 2
    /\ drd.pos < Len(dstream)
    /\ \E i \in (BitPos(drd) + 1)..Len(BitsOf(dstream)) : BitsOf(dstream)[i] = 1

\* C7: payload encode order. Nothing is written before the tree description,
\* which stays at the head of the output. For a covered input, inside the
\* loop the bits handed to the writer are the codes of the bytes read so far,
\* with no sentinel and no flush; after exhaustion they are the codes of the
\* whole input followed by the sentinel's code, written once; then comes
\* exactly one flush.
C7_EncodeOrder ==
    /\ (cpc = "start" => cw.out = <<>> /\ cw.bcount = 0)
    /\ (cpc \in {"loop", "flush", "done", "failed"} =>
          /\ treeEnd = Len(pickle_dump(tree))
          /\ Len(cw.out) >= treeEnd
          /\ Prefix(cw.out, treeEnd) = pickle_dump(tree))
    /\ (Covered =>
          /\ (cpc = "loop" =>
                /\ WrittenBits = Codes(tree, Prefix(uncompressed, crd.pos))
                /\ sentinels = 0 /\ flushes = 0)
          /\ (cpc = "flush" =>
                /\ crd.pos = Len(uncompressed)
                /\ WrittenBits = Codes(tree, uncompressed) \o PathTo(tree, None)
                /\ sentinels = 1 /\ flushes = 0)
          /\ (cpc = "done" =>
                /\ IsPrefix(Codes(tree, uncompressed) \o PathTo(tree, None), WrittenBits)
                /\ sentinels = 1 /\ flushes = 1))

C7_Witness ==
    /\ Covered /\ cpc = "done"
    /\ Len(uncompressed) >= 3 /\ Range(uncompressed) = Bytes
    /\ uncompressed[1] # uncompressed[2]
    /\ Len(PathTo(tree, None)) = 2

\* C8: symbol decoder traversal. After a decode_byte call on a tree whose
\* root is a branch that did not run out of bits, the bits it consumed lead
\* from the root (0 left, 1 right) to a leaf holding the returned value, no
\* proper prefix of them leads to a leaf, and their number is that leaf's
\* depth: the reader stands right after the code.
C8_Traversal ==
    (dpc \in {"loop", "done"} /\ IsTree(tree_root) /\ ~tree_root.leaf /\ ~lastEof) =>
        /\ BitPos(drd) >= callStart + 1
        /\ Follow(tree_root, LastBits) = TreeLeaf(value)
        /\ \A k \in 0..(Len(LastBits) - 1) : ~Follow(tree_root, Prefix(LastBits, k)).leaf
        /\ Len(LastBits) = Len(PathTo(tree_root, value))

C8_Witness ==
    /\ dpc = "loop" /\ IsTree(tree_root) /\ ~tree_root.leaf /\ ~lastEof
    /\ LastBits = <<1, 0>>
    /\ value = 65
    /\ Len(decoded) >= 2

\* C9: single-node tree. When the root is a leaf, every decode_byte call
\* returns the leaf's value and leaves the bit reader as it was created,
\* whether or not the stream has bytes left.
C9_SingleNode ==
    (dpc \in {"loop", "done"} /\ IsTree(tree_root) /\ tree_root.leaf) =>
        /\ value = tree_root.value
        /\ ~lastEof
        /\ drd = BitReader(PayloadStart)
        /\ BitPos(drd) = callStart

C9_Witness ==
    /\ dpc = "loop" /\ IsTree(tree_root) /\ tree_root.leaf
    /\ value = 65
    /\ Len(decoded) >= 2
    /\ drd.pos < Len(dstream)

C9_WitnessExhausted ==
    /\ dpc = "done" /\ IsTree(tree_root) /\ tree_root.leaf
    /\ value = None
    /\ drd.pos = Len(dstream)

\* C10 as stated, in the form a finite run refutes: the decode loop exits on
\* every finite payload because every iteration that does not obtain None
\* (and so does not end the loop) consumes at least one bit of the payload.
C10_Terminates ==
    [][(dpc = "loop" /\ dpc' = "loop" /\ value' # None) => BitPos(drd') > BitPos(drd)]_vars

====
